---- MODULE Spec2Model ----
(***************************************************************************)
(* The media ingestion pipeline of scripts/process-media (the R2 version,  *)
(* src/unnamed/part_011 lines 862-1616): one process walks the source      *)
(* tree, hashes every supported file, de-duplicates by content hash        *)
(* against the catalog being built (processingState), names, derives and   *)
(* uploads new content, and finally publishes the catalog twice            *)
(* (timestamped key, then metadata/latest.json).                           *)
(*                                                                         *)
(* Every await of the script is one action; what runs between two awaits   *)
(* is part of the action that ends at the later await.  The calls that     *)
(* leave the process (file system, codecs, object store) answer            *)
(* nondeterministically: they succeed or they throw.                       *)
(***************************************************************************)
EXTENDS Integers, Sequences, FiniteSets, TLC

(***************************************************************************)
(* Bounds of the model.                                                    *)
(***************************************************************************)
MaxFiles == 3        \* supported files in the source tree
MaxRuns == 2         \* successive executions of the script
NumImages == 2       \* distinct image contents
NumVideos == 1       \* distinct video contents
NumMonths == 2       \* calendar months the time line covers
DaysPerMonth == 1    \* a miniature calendar: days per month
SecsPerDay == 1      \* and seconds per day
MaxFaults == 1       \* calls that throw, over one behaviour

MaxTime == NumMonths * DaysPerMonth * SecsPerDay - 1
Times == 0..MaxTime

Sections == {"a", "a/b"}
ImageHashes == 1..NumImages
VideoHashes == (NumImages + 1)..(NumImages + NumVideos)
Hashes == ImageHashes \cup VideoHashes

NoExif == -1
NoName == [none |-> TRUE]
NoDoc == [absent |-> TRUE]

(***************************************************************************)
(* Source files.  A file is its section (the directory nesting joined by   *)
(* "/"), the content (named by its SHA-256), the kind its extension        *)
(* selects, the capture time embedded in the bytes (NoExif when there is   *)
(* none or it does not parse) and the creation time the file system        *)
(* reports.  Files are taken at the first second of a month or at its last *)
(* second.  life tells in which executions the file is in the tree: in     *)
(* all of them ("both"), in the first only ("removed" before the second),  *)
(* or from the second on ("added" after the first).                        *)
(***************************************************************************)
FileTimes == {0, MaxTime}

Lives == {"both", "removed", "added"}

Present(f, r) ==
    \/ f.life = "both"
    \/ f.life = "removed" /\ r = 1
    \/ f.life = "added" /\ r > 1

\* thumbName: the basename contains '-thumb'.  rotate and sideRotation are
\* what ffprobe reports of the video stream: tags.rotate (a string, "" when
\* the tag is absent) and the rotation of the display matrix in
\* side_data_list (0 when absent).  noDims: neither sharp (at first or from
\* the buffer) nor ffprobe reports a width and a height for the content.
ImageFiles ==
    [section : Sections, hash : ImageHashes, kind : {"image"},
     exif : {NoExif}, birth : FileTimes, life : {"both"},
     thumbName : {FALSE}, rotate : {""}, sideRotation : {0}, noDims : {FALSE}]

VideoFiles ==
    [section : Sections, hash : VideoHashes, kind : {"video"},
     exif : {NoExif}, birth : {0}, life : {"both"},
     thumbName : {FALSE}, rotate : {""}, sideRotation : {0}, noDims : {FALSE}]

FileSpace == ImageFiles \cup VideoFiles

\* The embedded capture time and the stream's rotation are part of the
\* bytes: equal content, equal EXIF, equal rotation.
SameContent(f, g) ==
    f.hash = g.hash =>
        /\ f.exif = g.exif
        /\ f.rotate = g.rotate
        /\ f.sideRotation = g.sideRotation
        /\ f.noDims = g.noDims

\* Trees that differ only in which hash value or which section name comes
\* first behave alike: a tree starts in section "a", and a content that was
\* not seen before has the least hash value of its kind not yet in the tree.
Canonical(t, f) ==
    /\ t = <<>> => f.section = "a"
    /\ \A h \in Hashes :
          /\ h < f.hash
          /\ (h \in ImageHashes) = (f.hash \in ImageHashes)
          => \E i \in 1..Len(t) : t[i].hash = h

VARIABLES
    tz,               \* TRUE: the process runs west of UTC (local time behind)
    now,              \* wall clock, in seconds
    tree,             \* the source tree in readdir order (files only)
    run,              \* number of the current execution of the script
    pc,               \* where the script is
    pos,              \* index in tree of the file being processed
    newFilename,      \* the StandardName of the file being processed
    role,             \* the asset uploadToR2 is working on
    dimensions,       \* the MediaMetadata being assembled
    processingState,  \* the RootCatalog of this run, in insertion order
    tmp,              \* names of the files in TMP_DIR
    tmpExists,        \* TMP_DIR exists
    blobs,            \* keys of the media objects in the bucket
    snapshots,        \* metadata/metadata-<timestamp>.json: <<timestamp, doc>>
    latest,           \* metadata/latest.json
    exitCode,         \* exit status of the last finished execution
    errors,           \* files of this run reported with console.error
    stdout,           \* the progress marks this execution wrote: 's', '+', 'x'
    site,             \* the gallery (lib/media.ts): the items it lists, its query
    procs,            \* two executions at the same time: where each one is
    tmpDir,           \* TMP_DIR as they share it: the bytes of its files
    objects,          \* the bytes at the media keys they write
    faults,           \* calls that have thrown so far
    hist              \* what the run did, for the properties below

vars == <<tz, now, tree, run, pc, pos, newFilename, role, dimensions,
          processingState, tmp, tmpExists, blobs, snapshots, latest,
          exitCode, errors, stdout, site, procs, tmpDir, objects, faults, hist>>

Cur == tree[pos]

(***************************************************************************)
(* Names.  A date string 'YYYY-MM-DD-HHMMSS' is the UTC day and the second *)
(* of that day; a StandardName is date string, serial and extension.  The  *)
(* files of TMP_DIR are named after a hash: '<hex><suffix><ext>'.          *)
(***************************************************************************)
Ext(kind) == IF kind = "image" THEN ".jpg" ELSE ".mp4"

\* date.toISOString().replace('T','-').replace(/:/g,'').split('.')[0]
FormatDate(t) == [date |-> t \div SecsPerDay, hms |-> t % SecsPerDay]

StandardName(dateStr, serial, ext) ==
    [stem |-> [dateStr |-> dateStr], serial |-> serial, ext |-> ext]

TmpName(hash, suffix, ext) ==
    [stem |-> [hex |-> hash], suffix |-> suffix, ext |-> ext]

TMP_METADATA_PATH == [stem |-> [word |-> "metadata"], suffix |-> "", ext |-> ".json"]

\* f.startsWith(dateStr): a SHA-256 hex digest and 'metadata.json' have no '-'
\* at index 4, so only a name that was built from the date string matches.
StartsWith(f, dateStr) == f.stem = [dateStr |-> dateStr]

\* f.match(new RegExp(`${dateStr}-(\\d+)`)) ? parseInt(match[1]) : 0
SerialOf(f, dateStr) ==
    IF f.stem = [dateStr |-> dateStr] /\ "serial" \in DOMAIN f THEN f.serial ELSE 0

SetMax(S) == CHOOSE m \in S : \A x \in S : x <= m

\* sharp(sourcePath).metadata() decodes images only; for a video container it
\* throws, and generateStandardFilename's outer catch takes the wall clock.
SharpReadable(f) == f.kind = "image"

ResolveDate(f, clock) ==
    IF SharpReadable(f)
    THEN IF f.exif # NoExif THEN FormatDate(f.exif) ELSE FormatDate(f.birth)
    ELSE FormatDate(clock)

generateStandardFilename(f, files, clock, ext) ==
    LET dateStr == ResolveDate(f, clock)
        existingSerials == {SerialOf(x, dateStr) : x \in {y \in files : StartsWith(y, dateStr)}}
        serial == IF existingSerials # {} THEN SetMax(existingSerials) + 1 ELSE 1
    IN  StandardName(dateStr, serial, ext)

(***************************************************************************)
(* Object keys.                                                            *)
(***************************************************************************)
\* new Date('YYYY-MM-DD') is UTC midnight; getFullYear/getMonth read it in
\* local time, which west of UTC is still the day before.
getDateBasedPath(date) ==
    LET localDay == IF tz THEN date - 1 ELSE date
    IN  [ym |-> localDay \div DaysPerMonth]

\* newFilename.match(/^(\d{4}-\d{2}-\d{2})/)
DateMatch(name) == name.stem.dateStr.date

\* The key uploadToR2 builds for the tmp file p, the hash string it is given
\* and the date.  The public URL is DOMAIN + '/' + key.
ObjectKey(p, contentHash, date) ==
    LET directory == IF p.suffix = "-thumb" THEN "thumbs"
                     ELSE IF p.suffix = "-preview" THEN "previews"
                     ELSE "originals"
    IN  [directory |-> directory, datePath |-> getDateBasedPath(date),
         name |-> contentHash, ext |-> p.ext]

PublicUrl(key) == [domain |-> "DOMAIN", key |-> key]

Suffix(r) == IF r = "thumbs" THEN "-thumb" ELSE IF r = "previews" THEN "-preview" ELSE ""

\* The tmp file of the current file for asset r, and the key it is uploaded to.
TmpPath(f, r) ==
    TmpName(f.hash, Suffix(r),
            IF r = "thumbs" THEN ".jpg" ELSE IF r = "previews" THEN ".mp4" ELSE Ext(f.kind))

KeyOf(f, r, name) ==
    ObjectKey(TmpPath(f, r), [hex |-> f.hash, suffix |-> Suffix(r)], DateMatch(name))

(***************************************************************************)
(* The catalog.  processingState is kept as the sequence of its entries in *)
(* insertion order; Object.entries walks the sections in the order they    *)
(* were created and, in a section, the names in the order they were first  *)
(* set.                                                                    *)
(***************************************************************************)
SetMin(S) == CHOOSE m \in S : \A x \in S : m <= x

SectionRank(ps, s) == SetMin({j \in 1..Len(ps) : ps[j].section = s})

Before(ps, i, j) ==
    \/ SectionRank(ps, ps[i].section) < SectionRank(ps, ps[j].section)
    \/ ps[i].section = ps[j].section /\ i <= j

NoEntry == [none |-> TRUE]

\* The comparison reads a field the records do not have: nothing ever matches.
findExistingByHash_wrongField(hash, ps) == NoEntry

findExistingByHash(hash, ps) ==
    LET m == {i \in 1..Len(ps) : ps[i].metadata.contentHash = hash}
    IN  IF m = {} THEN NoEntry
        ELSE ps[CHOOSE i \in m : \A j \in m : Before(ps, i, j)]

\* processingState.sections[section].images[filename] = metadata
SetImage(ps, section, filename, metadata) ==
    LET e == [section |-> section, filename |-> filename, metadata |-> metadata]
        at == {i \in 1..Len(ps) : ps[i].section = section /\ ps[i].filename = filename}
    IN  IF at = {} THEN Append(ps, e)
        ELSE [i \in 1..Len(ps) |-> IF i \in at THEN e ELSE ps[i]]

updateMetadata(ps, section, filename, metadata) ==
    SetImage(ps, section, filename, metadata)

\* JSON.stringify(processingState): { sections: { s: { images: { n: record } } } }
Serialize(ps) ==
    [s \in {ps[i].section : i \in 1..Len(ps)} |->
        [n \in {ps[i].filename : i \in {j \in 1..Len(ps) : ps[j].section = s}} |->
            (CHOOSE e \in {ps[i] : i \in 1..Len(ps)} : e.section = s /\ e.filename = n).metadata]]

\* The dimensions sharp / ffprobe report for a content; the video is a
\* portrait clip of 1080 by 1920.
RawDims(f) ==
    IF f.noDims THEN [width |-> 0, height |-> 0]
    ELSE IF f.kind = "video" THEN [width |-> 1080, height |-> 1920]
    ELSE [width |-> f.hash + 1, height |-> 1]

\* The rotation test that knows the number 90 only.
Rotated_numberOnly(f) == f.rotate = "" /\ f.sideRotation = 90

\* const rotation = videoStream.tags?.rotate || (side_data rotation || 0);
\* rotation === '90' || rotation === '270' || rotation === 90 || rotation === 270
Rotated(f) ==
    IF f.rotate # "" THEN f.rotate \in {"90", "270"}
    ELSE f.sideRotation \in {90, 270}

\* width and height as processImage / processVideo record them.
RecordedDims(f) ==
    IF f.kind = "video" /\ Rotated(f)
    THEN [width |-> RawDims(f).height, height |-> RawDims(f).width]
    ELSE RawDims(f)


NoUrl == [empty |-> TRUE]
NoDims == [none |-> TRUE]
NoCat == [none |-> TRUE]
NoItem == [none |-> TRUE]
NoSite == [items |-> <<>>, query |-> 0, found |-> NoItem]
NoProcs == <<>>
NoDir == [exists |-> FALSE]
NoObjects == <<>>

\* What the properties need to remember: of the current run the calls made
\* for each file (events), how each file ended (outcome) and the names handed
\* out (names); of the run before, its catalog and result (prev); of the
\* bucket, the media keys that were put while present (overwritten), the
\* latest.json this run started with (latest0) and the last publish that
\* succeeded (good).
NewHist ==
    [events |-> {}, outcome |-> <<>>, names |-> <<>>, prev |-> NoCat,
     overwritten |-> {}, latest0 |-> NoDoc, good |-> NoDoc]

Event(op) == [pos |-> pos, op |-> op, role |-> role]

Log(op) == [hist EXCEPT !.events = @ \cup {Event(op)}]

Init ==
    /\ tz \in BOOLEAN
    /\ now = 0
    /\ tree = <<>>
    /\ run = 1
    /\ pc = "start"
    /\ pos = 0
    /\ newFilename = NoName
    /\ role = "none"
    /\ dimensions = NoDims
    /\ processingState = <<>>
    /\ tmp = {}
    /\ tmpExists = FALSE
    /\ blobs = {}
    /\ snapshots = {}
    /\ latest = NoDoc
    /\ exitCode = -1
    /\ errors = {}
    /\ stdout = <<>>
    /\ site = NoSite
    /\ procs = NoProcs
    /\ tmpDir = NoDir
    /\ objects = NoObjects
    /\ faults = 0
    /\ hist = NewHist

\* An external call returns normally / throws.
Returns == faults' = faults

Throws == faults < MaxFaults /\ faults' = faults + 1

\* The clock is read by generateStandardFilename when sharp cannot read the
\* file, and by uploadMetadata; time that passes elsewhere passes just before
\* one of these reads.
Tick ==
    /\ \/ pc = "name" /\ ~SharpReadable(Cur)
       \/ pc = "pubV"
    /\ now < MaxTime
    /\ now' = now + 1
    /\ UNCHANGED <<tz, tree, run, pc, pos, newFilename, role, dimensions,
                   processingState, tmp, tmpExists, blobs, snapshots, latest,
                   exitCode, errors, stdout, faults, hist>>
    /\ UNCHANGED <<site, procs, tmpDir, objects>>

\* Every end of the process reported as success.
Exit_alwaysZero(code) ==
    /\ pc' = "exit"
    /\ exitCode' = 0
    /\ newFilename' = NoName
    /\ role' = "none"
    /\ dimensions' = NoDims

\* process.exit(1) and the normal end of main().
Exit(code) ==
    /\ pc' = "exit"
    /\ exitCode' = code
    /\ newFilename' = NoName
    /\ role' = "none"
    /\ dimensions' = NoDims

\* main() without its reset of processingState, the catalog kept from the
\* execution before (as when it were read back from the bucket).
Startup_noReset ==
    /\ pc = "start"
    /\ \/ /\ Returns
          /\ pc' = "walk"
          /\ tmpExists' = TRUE
          /\ UNCHANGED <<exitCode, newFilename, role, dimensions, processingState>>
       \/ /\ Throws
          /\ Exit(1)
          /\ UNCHANGED <<tmpExists, processingState>>
    /\ UNCHANGED <<tz, now, tree, run, pos, tmp, blobs, snapshots, latest, errors,
                   stdout, hist>>
    /\ UNCHANGED <<site, procs, tmpDir, objects>>

\* Module level checks (DOMAIN, credentials, source root), then main() up to
\* the first readdir: ensureDir(TMP_DIR), processingState = { sections: {} }.
Startup ==
    /\ pc = "start"
    /\ \/ /\ Returns
          /\ pc' = "walk"
          /\ tmpExists' = TRUE
          /\ processingState' = <<>>
          /\ UNCHANGED <<exitCode, newFilename, role, dimensions>>
       \/ /\ Throws
          /\ Exit(1)
          /\ UNCHANGED <<tmpExists, processingState>>
    /\ UNCHANGED <<tz, now, tree, run, pos, tmp, blobs, snapshots, latest, errors,
                   stdout, hist>>
    /\ UNCHANGED <<site, procs, tmpDir, objects>>

\* for (const item of items): the next supported file of the walk.  The tree
\* is revealed as the first run walks it; later runs walk the same tree.
processDirectory_item ==
    /\ pc = "walk"
    /\ \/ /\ run = 1
          /\ pos = Len(tree)
          /\ Len(tree) < MaxFiles
          /\ \E f \in FileSpace :
                /\ \A i \in 1..Len(tree) : SameContent(tree[i], f)
                /\ Canonical(tree, f)
                /\ tree' = Append(tree, f)
       \/ /\ pos < Len(tree)
          /\ tree' = tree
    /\ pos' = pos + 1
    /\ pc' = "hash"
    /\ UNCHANGED <<tz, now, run, newFilename, role, dimensions, processingState,
                   tmp, tmpExists, blobs, snapshots, latest, exitCode, errors,
                   stdout, faults, hist>>
    /\ UNCHANGED <<site, procs, tmpDir, objects>>

\* The loop of the outermost processDirectory ends: back in main().
processDirectory_return ==
    /\ pc = "walk"
    /\ pos = Len(tree)
    /\ pc' = "cleanup"
    /\ UNCHANGED <<tz, now, tree, run, pos, newFilename, role, dimensions,
                   processingState, tmp, tmpExists, blobs, snapshots, latest,
                   exitCode, errors, stdout, faults, hist>>
    /\ UNCHANGED <<site, procs, tmpDir, objects>>

\* The file is done (Recorded, Referenced or Failed): next loop iteration.
Done(outcome, h) ==
    /\ pc' = "walk"
    /\ newFilename' = NoName
    /\ role' = "none"
    /\ dimensions' = NoDims
    /\ hist' = [h EXCEPT !.outcome = Append(@, outcome)]

\* The failure branch without its console.error.
Failed_silent ==
    /\ Throws
    /\ Done("Failed", hist)
    /\ stdout' = Append(stdout, "x")
    /\ UNCHANGED errors

\* processImage / processVideo returned { success: false }: 'x' and
\* console.error(`Error processing image ${item}: ...`).
Failed ==
    /\ Throws
    /\ Done("Failed", hist)
    /\ stdout' = Append(stdout, "x")
    /\ errors' = errors \cup {pos}

\* The duplicate branch with its section test the wrong way round.
Dedup_sameSection(existing) ==
    IF existing # NoEntry
    THEN /\ processingState' =
              IF existing.section = Cur.section
              THEN SetImage(processingState, Cur.section,
                            existing.filename, existing.metadata)
              ELSE processingState
         /\ stdout' = Append(stdout, "s")
         /\ Done("Referenced", hist)
    ELSE /\ pc' = IF Cur.kind = "image" THEN "name" ELSE "dims"
         /\ UNCHANGED <<processingState, newFilename, role, dimensions, stdout, hist>>

\* What processDirectory does with the hash: the duplicate branch, or on to
\* processImage / processVideo.
Dedup(existing) ==
    IF existing # NoEntry
    THEN /\ processingState' =
              IF existing.section # Cur.section
              THEN SetImage(processingState, Cur.section,
                            existing.filename, existing.metadata)
              ELSE processingState
         /\ stdout' = Append(stdout, "s")
         /\ Done("Referenced", hist)
    ELSE /\ pc' = IF Cur.kind = "image" THEN "name" ELSE "dims"
         /\ UNCHANGED <<processingState, newFilename, role, dimensions, stdout, hist>>

\* const contentHash = await calculateFileHash(sourcePath), outside any try;
\* then findExistingByHash.
processDirectory_hash ==
    /\ pc = "hash"
    /\ \/ /\ Returns
          /\ Dedup(findExistingByHash(Cur.hash, processingState))
          /\ UNCHANGED exitCode
       \/ /\ Throws
          /\ Exit(1)
          /\ hist' = Log("hashError")
          /\ UNCHANGED <<processingState, stdout>>
    /\ UNCHANGED <<tz, now, tree, run, pos, tmp, tmpExists, blobs, snapshots,
                   latest, errors>>
    /\ UNCHANGED <<site, procs, tmpDir, objects>>

\* generateStandardFilename(sourcePath, TMP_DIR, ext)
processDirectory_name ==
    /\ pc = "name"
    /\ newFilename' = generateStandardFilename(Cur, tmp, now, Ext(Cur.kind))
    /\ pc' = IF Cur.kind = "image" THEN "dims" ELSE "copy"
    /\ hist' = [Log("alloc") EXCEPT
                    !.names = Append(@, [pos |-> pos, name |-> newFilename'])]
    /\ UNCHANGED <<tz, now, tree, run, pos, role, dimensions, processingState,
                   tmp, tmpExists, blobs, snapshots, latest, exitCode, errors,
                   stdout, faults>>
    /\ UNCHANGED <<site, procs, tmpDir, objects>>

\* throw new Error('Could not extract image dimensions'): the image ends
\* Failed though every call returned.
Rejected ==
    /\ Returns
    /\ Done("Failed", hist)
    /\ stdout' = Append(stdout, "x")
    /\ errors' = errors \cup {pos}

\* processImage returns { success: true } at once for a basename with
\* '-thumb'; else sharp(sourcePath).metadata() with its buffer fallback
\* (processImage), ffmpeg.ffprobe (processVideo).
process_dims ==
    /\ pc = "dims"
    /\ IF Cur.kind = "image" /\ Cur.thumbName
       THEN /\ Returns
            /\ Done("Skipped", hist)
            /\ UNCHANGED <<errors, stdout>>
       ELSE IF Cur.kind = "image" /\ Cur.noDims
       THEN Rejected
       ELSE \/ /\ Returns
               /\ pc' = IF Cur.kind = "image" THEN "copy" ELSE "name"
               /\ UNCHANGED <<newFilename, role, dimensions, hist, errors, stdout>>
            \/ Failed
    /\ UNCHANGED <<tz, now, tree, run, pos, processingState, tmp, tmpExists,
                   blobs, snapshots, latest, exitCode>>
    /\ UNCHANGED <<site, procs, tmpDir, objects>>

\* processImage / processVideo not awaited: the loop goes on to the next
\* item while the file is still being processed.
process_copy_detached ==
    /\ pc = "copy"
    /\ Returns
    /\ tmp' = tmp \cup {TmpPath(Cur, "originals")}
    /\ tmpExists' = TRUE
    /\ pc' = "walk"
    /\ UNCHANGED <<newFilename, role, dimensions, hist, errors, stdout>>
    /\ UNCHANGED <<tz, now, tree, run, pos, processingState, blobs, snapshots,
                   latest, exitCode>>
    /\ UNCHANGED <<site, procs, tmpDir, objects>>

\* calculateFileHash again, ensureDir(TMP_DIR), fs.copyFileSync to TMP_DIR.
process_copy ==
    /\ pc = "copy"
    /\ \/ /\ Returns
          /\ tmp' = tmp \cup {TmpPath(Cur, "originals")}
          /\ tmpExists' = TRUE
          /\ role' = "originals"
          /\ pc' = "probe"
          /\ UNCHANGED <<newFilename, dimensions, hist, errors, stdout>>
       \/ /\ Failed
          /\ UNCHANGED <<tmp, tmpExists>>
    /\ UNCHANGED <<tz, now, tree, run, pos, processingState, blobs, snapshots,
                   latest, exitCode>>
    /\ UNCHANGED <<site, procs, tmpDir, objects>>

\* width / height in floating point: a fraction, or NaN for 0 / 0.
NaN == [nan |-> TRUE]

Divide(w, h) == IF h # 0 THEN [num |-> w, den |-> h] ELSE NaN

\* The MediaMetadata literal of processImage / processVideo.
NewDimensions(f, url) ==
    [width |-> RecordedDims(f).width, height |-> RecordedDims(f).height,
     aspectRatio |-> Divide(RecordedDims(f).width, RecordedDims(f).height),
     originalFilename |-> pos, type |-> f.kind, contentHash |-> f.hash,
     urls |-> IF f.kind = "image"
              THEN [original |-> url, thumb |-> NoUrl]
              ELSE [original |-> url, thumb |-> NoUrl, preview |-> NoUrl]]

\* The caller that hands the record to updateMetadata as soon as the
\* original is uploaded, its placeholders still in it.
Uploaded_early(url, h) ==
    IF role = "originals"
    THEN /\ dimensions' = NewDimensions(Cur, url)
         /\ processingState' =
              updateMetadata(processingState, Cur.section, newFilename,
                             NewDimensions(Cur, url))
         /\ role' = "thumbs"
         /\ pc' = "gen"
         /\ hist' = h
         /\ UNCHANGED <<newFilename, tmp>>
    ELSE IF role = "thumbs" /\ Cur.kind = "video"
    THEN /\ dimensions' = [dimensions EXCEPT !.urls.thumb = url]
         /\ role' = "previews"
         /\ pc' = "gen"
         /\ hist' = h
         /\ UNCHANGED <<newFilename, processingState, tmp>>
    ELSE /\ processingState' =
              updateMetadata(processingState, Cur.section, newFilename,
                  IF role = "thumbs" THEN [dimensions EXCEPT !.urls.thumb = url]
                  ELSE [dimensions EXCEPT !.urls.preview = url])
         /\ tmp' = tmp \cup {TMP_METADATA_PATH}
         /\ Done("Recorded", h)

\* uploadToR2 returned { success: true, url }: what the caller does with it.
Uploaded(url, h) ==
    IF role = "originals"
    THEN /\ dimensions' = NewDimensions(Cur, url)
         /\ role' = "thumbs"
         /\ pc' = "gen"
         /\ hist' = h
         /\ UNCHANGED <<newFilename, processingState, tmp>>
    ELSE IF role = "thumbs" /\ Cur.kind = "video"
    THEN /\ dimensions' = [dimensions EXCEPT !.urls.thumb = url]
         /\ role' = "previews"
         /\ pc' = "gen"
         /\ hist' = h
         /\ UNCHANGED <<newFilename, processingState, tmp>>
    ELSE /\ processingState' =
              updateMetadata(processingState, Cur.section, newFilename,
                  IF role = "thumbs" THEN [dimensions EXCEPT !.urls.thumb = url]
                  ELSE [dimensions EXCEPT !.urls.preview = url])
         /\ tmp' = tmp \cup {TMP_METADATA_PATH}
         /\ Done("Recorded", h)

\* The probe that takes every answer for NotFound.
checkObjectExists_never(key) == FALSE

\* HeadObjectCommand: the object is there / NotFound.
checkObjectExists(key) == key \in blobs

\* uploadToR2 up to the answer of checkObjectExists(key).
uploadToR2_probe ==
    /\ pc = "probe"
    /\ LET key == KeyOf(Cur, role, newFilename)
       IN  \/ /\ Returns
              /\ checkObjectExists(key)
              /\ Uploaded(PublicUrl(key), Log("probe"))
              /\ stdout' = Append(stdout, "s")
              /\ UNCHANGED errors
           \/ /\ Returns
              /\ ~checkObjectExists(key)
              /\ pc' = "put"
              /\ hist' = Log("probe")
              /\ UNCHANGED <<newFilename, role, dimensions, processingState, tmp,
                             errors, stdout>>
           \/ /\ Failed
              /\ UNCHANGED <<processingState, tmp>>
    /\ UNCHANGED <<tz, now, tree, run, pos, tmpExists, blobs, snapshots, latest, exitCode>>
    /\ UNCHANGED <<site, procs, tmpDir, objects>>

\* The caller that takes the url without looking at success.
uploadToR2_put_unchecked ==
    /\ pc = "put"
    /\ LET key == KeyOf(Cur, role, newFilename)
       IN  \/ /\ Returns
              /\ blobs' = blobs \cup {key}
              /\ Uploaded(PublicUrl(key),
                          [Log("put") EXCEPT !.overwritten = @ \cup ({key} \cap blobs)])
              /\ stdout' = Append(stdout, "+")
              /\ UNCHANGED errors
           \/ /\ Throws
              /\ Uploaded(PublicUrl(key), Log("put"))
              /\ UNCHANGED <<blobs, errors, stdout>>
    /\ UNCHANGED <<tz, now, tree, run, pos, tmpExists, snapshots, latest, exitCode>>
    /\ UNCHANGED <<site, procs, tmpDir, objects>>

\* uploadToR2 from the PutObjectCommand on.
uploadToR2_put ==
    /\ pc = "put"
    /\ LET key == KeyOf(Cur, role, newFilename)
       IN  \/ /\ Returns
              /\ blobs' = blobs \cup {key}
              /\ Uploaded(PublicUrl(key),
                          [Log("put") EXCEPT !.overwritten = @ \cup ({key} \cap blobs)])
              /\ stdout' = Append(stdout, "+")
              /\ UNCHANGED errors
           \/ /\ Failed
              /\ UNCHANGED <<processingState, tmp, blobs>>
    /\ UNCHANGED <<tz, now, tree, run, pos, tmpExists, snapshots, latest, exitCode>>
    /\ UNCHANGED <<site, procs, tmpDir, objects>>

\* The thumbnail (sharp pipeline / ffmpeg screenshot) or the preview clip is
\* written to TMP_DIR.
process_gen ==
    /\ pc = "gen"
    /\ \/ /\ Returns
          /\ tmp' = tmp \cup {TmpPath(Cur, role)}
          /\ pc' = "probe"
          /\ hist' = Log("gen")
          /\ UNCHANGED <<newFilename, role, dimensions, errors, stdout>>
       \/ /\ Failed
          /\ UNCHANGED tmp
    /\ UNCHANGED <<tz, now, tree, run, pos, processingState, tmpExists, blobs,
                   snapshots, latest, exitCode>>
    /\ UNCHANGED <<site, procs, tmpDir, objects>>

\* fs.rmSync(TMP_DIR, { recursive: true, force: true }); an error is logged
\* and swallowed.
cleanupTmp ==
    /\ pc = "cleanup"
    /\ \/ Returns /\ tmp' = {} /\ tmpExists' = FALSE
       \/ Throws /\ UNCHANGED <<tmp, tmpExists>>
    /\ pc' = "pubV"
    /\ UNCHANGED <<tz, now, tree, run, pos, newFilename, role, dimensions,
                   processingState, blobs, snapshots, latest, exitCode, errors,
                   stdout, hist>>
    /\ UNCHANGED <<site, procs, tmpDir, objects>>

\* The timestamp cut at the second: two executions can read the same one.
VersionedKey_seconds(clock, r) ==
    [prefix |-> "metadata/metadata-", timestamp |-> FormatDate(clock), ms |-> 0]

\* `metadata/metadata-${new Date().toISOString().replace(/[:.]/g, '-')}.json`.
\* The timestamp has millisecond resolution and now counts seconds: two
\* executions, one after the other, never read the same millisecond, so the
\* part of the timestamp below the second is the number of the execution.
VersionedKey(clock, r) ==
    [prefix |-> "metadata/metadata-", timestamp |-> FormatDate(clock), ms |-> r]

\* latest.json patched: the new catalog laid over the old document.
LatestBody_merged(old, ps) ==
    LET new == Serialize(ps)
        Names(d, x) == IF x \in DOMAIN d THEN DOMAIN d[x] ELSE {}
    IN  IF old = NoDoc THEN new
        ELSE [x \in DOMAIN old \cup DOMAIN new |->
                [n \in Names(old, x) \cup Names(new, x) |->
                    IF n \in Names(new, x) THEN new[x][n] ELSE old[x][n]]]

\* Body: JSON.stringify(metadata, null, 2) of the put of metadata/latest.json.
LatestBody(old, ps) == Serialize(ps)

PutSnapshot(key, doc) == {s \in snapshots : s[1] # key} \cup {<<key, doc>>}

\* The versioned put not awaited: its failure does not stop the second put.
uploadMetadata_versioned_notAwaited ==
    /\ pc = "pubV"
    /\ \/ /\ Returns
          /\ snapshots' = PutSnapshot(VersionedKey(now, run), Serialize(processingState))
       \/ /\ Throws
          /\ UNCHANGED snapshots
    /\ pc' = "pubL"
    /\ UNCHANGED <<tz, now, tree, run, pos, processingState, tmp, tmpExists,
                   blobs, latest, errors, stdout, hist, exitCode, newFilename,
                   role, dimensions>>
    /\ UNCHANGED <<site, procs, tmpDir, objects>>

\* uploadMetadata up to the answer of the versioned put.
uploadMetadata_versioned ==
    /\ pc = "pubV"
    /\ \/ /\ Returns
          /\ snapshots' = PutSnapshot(VersionedKey(now, run), Serialize(processingState))
          /\ pc' = "pubL"
          /\ UNCHANGED <<exitCode, newFilename, role, dimensions>>
       \/ /\ Throws
          /\ Exit(1)
          /\ UNCHANGED snapshots
    /\ UNCHANGED <<tz, now, tree, run, pos, processingState, tmp, tmpExists,
                   blobs, latest, errors, stdout, hist>>
    /\ UNCHANGED <<site, procs, tmpDir, objects>>

\* uploadMetadata from the put of metadata/latest.json on, and the end of main.
uploadMetadata_latest ==
    /\ pc = "pubL"
    /\ \/ /\ Returns
          /\ latest' = LatestBody(latest, processingState)
          /\ Exit(0)
          /\ stdout' = Append(stdout, "done")
          /\ hist' = [hist EXCEPT !.good = [key |-> VersionedKey(now, run),
                                            doc |-> Serialize(processingState)]]
       \/ /\ Throws
          /\ Exit(1)
          /\ UNCHANGED <<latest, stdout, hist>>
    /\ UNCHANGED <<tz, now, tree, run, pos, processingState, tmp, tmpExists,
                   blobs, snapshots, errors>>
    /\ UNCHANGED <<site, procs, tmpDir, objects>>

\* The script is started again.
StartRun ==
    /\ pc = "exit"
    /\ run < MaxRuns
    /\ run' = run + 1
    /\ pc' = "start"
    /\ pos' = 0
    /\ errors' = {}
    /\ stdout' = <<>>
    /\ hist' = [NewHist EXCEPT
                    !.prev = [cat |-> Serialize(processingState),
                              exitCode |-> exitCode, events |-> hist.events],
                    !.overwritten = hist.overwritten,
                    !.latest0 = latest,
                    !.good = hist.good]
    /\ UNCHANGED <<tz, now, tree, newFilename, role, dimensions, processingState,
                   tmp, tmpExists, blobs, snapshots, latest, exitCode, faults>>
    /\ UNCHANGED <<site, procs, tmpDir, objects>>

Next ==
    \/ Tick
    \/ Startup
    \/ processDirectory_item
    \/ processDirectory_return
    \/ processDirectory_hash
    \/ processDirectory_name
    \/ process_dims
    \/ process_copy
    \/ uploadToR2_probe
    \/ uploadToR2_put
    \/ process_gen
    \/ cleanupTmp
    \/ uploadMetadata_versioned
    \/ uploadMetadata_latest
    \/ StartRun

Spec == Init /\ [][Next]_vars

(***************************************************************************)
(* The source tree edited between two executions: one file is deleted      *)
(* after the first execution, or one file is created before the second,    *)
(* anywhere in the walk order.  The walk of an execution meets the files   *)
(* that are present in it.  Here no call throws.                           *)
(***************************************************************************)
InitEdit ==
    /\ tz \in BOOLEAN
    /\ now = 0
    /\ tree = <<>>
    /\ run = 1
    /\ pc = "start"
    /\ pos = 0
    /\ newFilename = NoName
    /\ role = "none"
    /\ dimensions = NoDims
    /\ processingState = <<>>
    /\ tmp = {}
    /\ tmpExists = FALSE
    /\ blobs = {}
    /\ snapshots = {}
    /\ latest = NoDoc
    /\ exitCode = -1
    /\ errors = {}
    /\ stdout = <<>>
    /\ site = NoSite
    /\ procs = NoProcs
    /\ tmpDir = NoDir
    /\ objects = NoObjects
    /\ faults = MaxFaults
    /\ hist = NewHist

\* for (const item of items) over a tree that is edited between executions:
\* a file that is not there in this execution is not among the items.
processDirectory_item_edited ==
    /\ pc = "walk"
    /\ \/ /\ run = 1
          /\ pos = Len(tree)
          /\ Len(tree) < MaxFiles
          /\ \E f \in FileSpace, l \in Lives :
                /\ l # "both" => \A i \in 1..Len(tree) : tree[i].life = "both"
                /\ \A i \in 1..Len(tree) : SameContent(tree[i], f)
                /\ Canonical(tree, f)
                /\ tree' = Append(tree, [f EXCEPT !.life = l])
       \/ /\ pos < Len(tree)
          /\ tree' = tree
    /\ pos' = pos + 1
    /\ pc' = IF Present(tree'[pos'], run) THEN "hash" ELSE "walk"
    /\ UNCHANGED <<tz, now, run, newFilename, role, dimensions, processingState,
                   tmp, tmpExists, blobs, snapshots, latest, exitCode, errors,
                   stdout, faults>>
    /\ hist' = IF Present(tree'[pos'], run) THEN hist
               ELSE [hist EXCEPT !.outcome = Append(@, "Absent")]
    /\ UNCHANGED <<site, procs, tmpDir, objects>>

NextEdit ==
    \/ Tick
    \/ Startup
    \/ processDirectory_item_edited
    \/ processDirectory_return
    \/ processDirectory_hash
    \/ processDirectory_name
    \/ process_dims
    \/ process_copy
    \/ uploadToR2_probe
    \/ uploadToR2_put
    \/ process_gen
    \/ cleanupTmp
    \/ uploadMetadata_versioned
    \/ uploadMetadata_latest
    \/ StartRun

SpecEdit == InitEdit /\ [][NextEdit]_vars


(***************************************************************************)
(* One execution over a tree in which one file is out of the ordinary: an  *)
(* image that carries a capture time in its EXIF or whose basename         *)
(* contains '-thumb', or a video whose stream is rotated.  ffprobe reports *)
(* the rotation as the tag rotate, as the rotation of the display matrix   *)
(* (the tag's negative, modulo 360), or as both.  Here no call throws.     *)
(***************************************************************************)
StreamRotations ==
    {<<"", 0>>, <<"90", -90>>, <<"180", 180>>, <<"270", 90>>,
     <<"", -90>>, <<"", 180>>, <<"", 90>>, <<"", 270>>}

AnyImageFiles ==
    [section : Sections, hash : ImageHashes, kind : {"image"},
     exif : {NoExif} \cup Times, birth : FileTimes, life : {"both"},
     thumbName : BOOLEAN, rotate : {""}, sideRotation : {0}, noDims : {FALSE}]
    \cup {[f EXCEPT !.noDims = TRUE] : f \in ImageFiles}

AnyVideoFiles ==
    {[section |-> s, hash |-> h, kind |-> "video", exif |-> NoExif, birth |-> 0,
      life |-> "both", thumbName |-> FALSE, rotate |-> m[1], sideRotation |-> m[2],
      noDims |-> FALSE] :
        s \in Sections, h \in VideoHashes, m \in StreamRotations}
    \cup {[f EXCEPT !.noDims = TRUE] : f \in VideoFiles}

AnyFiles == AnyImageFiles \cup AnyVideoFiles

InitFiles ==
    /\ tz \in BOOLEAN
    /\ now = 0
    /\ tree = <<>>
    /\ run = MaxRuns
    /\ pc = "start"
    /\ pos = 0
    /\ newFilename = NoName
    /\ role = "none"
    /\ dimensions = NoDims
    /\ processingState = <<>>
    /\ tmp = {}
    /\ tmpExists = FALSE
    /\ blobs = {}
    /\ snapshots = {}
    /\ latest = NoDoc
    /\ exitCode = -1
    /\ errors = {}
    /\ stdout = <<>>
    /\ site = NoSite
    /\ procs = NoProcs
    /\ tmpDir = NoDir
    /\ objects = NoObjects
    /\ faults = MaxFaults
    /\ hist = NewHist

\* for (const item of items): the next supported file, of any kind of name
\* and content.
processDirectory_item_any ==
    /\ pc = "walk"
    /\ pos = Len(tree)
    /\ Len(tree) < MaxFiles
    /\ \E f \in AnyFiles :
          /\ f \notin FileSpace => \A i \in 1..Len(tree) : tree[i] \in FileSpace
          /\ \A i \in 1..Len(tree) : SameContent(tree[i], f)
          /\ Canonical(tree, f)
          /\ tree' = Append(tree, f)
    /\ pos' = pos + 1
    /\ pc' = "hash"
    /\ UNCHANGED <<tz, now, run, newFilename, role, dimensions, processingState,
                   tmp, tmpExists, blobs, snapshots, latest, exitCode, errors,
                   stdout, site, procs, tmpDir, objects, faults, hist>>

NextFiles ==
    \/ Tick
    \/ Startup
    \/ processDirectory_item_any
    \/ processDirectory_return
    \/ processDirectory_hash
    \/ processDirectory_name
    \/ process_dims
    \/ process_copy
    \/ uploadToR2_probe
    \/ uploadToR2_put
    \/ process_gen
    \/ cleanupTmp
    \/ uploadMetadata_versioned
    \/ uploadMetadata_latest

SpecFiles == InitFiles /\ [][NextFiles]_vars

(***************************************************************************)
(* The gallery (lib/media.ts) reads a published catalog.  Here the names   *)
(* are strings of characters: a section name is a directory path, any      *)
(* characters the file system allows; a filename is a StandardName, which  *)
(* has no white space.                                                     *)
(***************************************************************************)
MaxNameLen == 2      \* characters of a section name
MaxSections == 2     \* sections of a catalog the gallery reads

Chars == {"x", " ", "-"}

SectionNames == UNION {[1..n -> Chars] : n \in 1..MaxNameLen}

FileNames == {<<"1">>, <<"2">>}

MediaRecords ==
    {[width |-> 2, height |-> 1, originalFilename |-> h, type |-> "image",
      contentHash |-> h,
      urls |-> [original |-> [hex |-> h, suffix |-> ""],
                thumb |-> [hex |-> h, suffix |-> "-thumb"]]] : h \in ImageHashes}

SectionDocs == UNION {[N -> MediaRecords] : N \in SUBSET FileNames \ {{}}}

Catalogs ==
    UNION {[S -> SectionDocs] :
              S \in {T \in SUBSET SectionNames : Cardinality(T) \in 1..MaxSections}}

\* path.join(a, b) for names without '.' and '/' segments to normalise.
join(a, b) == IF a = <<>> THEN b ELSE a \o <<"/">> \o b

\* str.replace(/\s+/g, '-'): every run of white space becomes one '-'.
RECURSIVE ReplaceSpaces(_)
ReplaceSpaces(str) ==
    IF str = <<>> THEN <<>>
    ELSE IF Head(str) # " " THEN <<Head(str)>> \o ReplaceSpaces(Tail(str))
    ELSE IF Tail(str) # <<>> /\ Head(Tail(str)) = " " THEN ReplaceSpaces(Tail(str))
    ELSE <<"-">> \o ReplaceSpaces(Tail(str))

ItemId(sectionName, filename) == ReplaceSpaces(join(sectionName, filename))

\* a.localeCompare(b) <= 0: white space sorts before punctuation, before
\* digits, before letters; a prefix sorts first.
CharRank(c) ==
    IF c = " " THEN 0 ELSE IF c = "-" THEN 1 ELSE IF c = "/" THEN 2
    ELSE IF c = "1" THEN 3 ELSE IF c = "2" THEN 4 ELSE 5

RECURSIVE localeCompareLeq(_, _)
localeCompareLeq(a, b) ==
    IF a = <<>> THEN TRUE
    ELSE IF b = <<>> THEN FALSE
    ELSE IF Head(a) = Head(b) THEN localeCompareLeq(Tail(a), Tail(b))
    ELSE CharRank(Head(a)) < CharRank(Head(b))

\* Array.prototype.sort over distinct names, ascending.
SortNames(S) ==
    CHOOSE q \in [1..Cardinality(S) -> S] :
        \A i, j \in 1..Cardinality(S) :
            i < j => q[i] # q[j] /\ localeCompareLeq(q[i], q[j])

Reverse(q) == [i \in 1..Len(q) |-> q[Len(q) + 1 - i]]

getMediaItemsInSection(sectionName, images) ==
    LET names == SortNames(DOMAIN images)
    IN  [i \in 1..Len(names) |->
            [id |-> ItemId(sectionName, names[i]),
             type |-> images[names[i]].type,
             section |-> sectionName,
             filename |-> names[i],
             originalFilename |-> images[names[i]].originalFilename,
             url |-> images[names[i]].urls.original,
             thumbnailUrl |-> images[names[i]].urls.thumb,
             dimensions |-> [width |-> images[names[i]].width,
                             height |-> images[names[i]].height],
             contentHash |-> images[names[i]].contentHash]]

\* The sections with their items, sorted by name, latest name first.
getMediaSections(doc) ==
    LET names == Reverse(SortNames(DOMAIN doc))
    IN  [i \in 1..Len(names) |->
            [name |-> names[i], items |-> getMediaItemsInSection(names[i], doc[names[i]])]]

RECURSIVE FlatMapItems(_)
FlatMapItems(sections) ==
    IF sections = <<>> THEN <<>>
    ELSE Head(sections).items \o FlatMapItems(Tail(sections))

getAllMediaItems(doc) == FlatMapItems(getMediaSections(doc))

\* items.find(item => item.id === id)
getMediaItemById(doc, id) ==
    LET items == getAllMediaItems(doc)
        m == {i \in 1..Len(items) : items[i].id = id}
    IN  IF m = {} THEN NoItem ELSE items[SetMin(m)]

InitMedia ==
    /\ tz \in BOOLEAN
    /\ now = 0
    /\ tree = <<>>
    /\ run = 1
    /\ pc = "exit"
    /\ pos = 0
    /\ newFilename = NoName
    /\ role = "none"
    /\ dimensions = NoDims
    /\ processingState = <<>>
    /\ tmp = {}
    /\ tmpExists = FALSE
    /\ blobs = {}
    /\ snapshots = {}
    /\ latest \in Catalogs
    /\ exitCode = 0
    /\ errors = {}
    /\ stdout = <<>>
    /\ site = NoSite
    /\ procs = NoProcs
    /\ tmpDir = NoDir
    /\ objects = NoObjects
    /\ faults = 0
    /\ hist = NewHist

\* const items = await getAllMediaItems()
testMedia_getAllMediaItems ==
    /\ site.items = <<>>
    /\ site' = [site EXCEPT !.items = getAllMediaItems(latest)]
    /\ UNCHANGED <<tz, now, tree, run, pc, pos, newFilename, role, dimensions,
                   processingState, tmp, tmpExists, blobs, snapshots, latest,
                   exitCode, errors, stdout, procs, tmpDir, objects, faults,
                   hist>>

\* const foundItem = await getMediaItemById(item.id), for any listed item.
testMedia_getMediaItemById ==
    /\ \E i \in 1..Len(site.items) :
          site' = [site EXCEPT !.query = i,
                               !.found = getMediaItemById(latest, site.items[i].id)]
    /\ UNCHANGED <<tz, now, tree, run, pc, pos, newFilename, role, dimensions,
                   processingState, tmp, tmpExists, blobs, snapshots, latest,
                   exitCode, errors, stdout, procs, tmpDir, objects, faults,
                   hist>>

NextMedia ==
    \/ testMedia_getAllMediaItems
    \/ testMedia_getMediaItemById

SpecMedia == InitMedia /\ [][NextMedia]_vars

(***************************************************************************)
(* Properties.                                                             *)
(***************************************************************************)
Entries(ps) == {ps[i] : i \in 1..Len(ps)}

RecordsOf(doc) ==
    IF doc = NoDoc THEN {}
    ELSE UNION {{doc[s][n] : n \in DOMAIN doc[s]} : s \in DOMAIN doc}

SameHashSameUrls(recs) ==
    \A r1, r2 \in recs : r1.contentHash = r2.contentHash => r1.urls = r2.urls

WorkOps == {"gen", "probe", "put"}

Outcome(i) == IF i \in 1..Len(hist.outcome) THEN hist.outcome[i] ELSE "none"

\* C1: at every point of a run, and in every published catalog (the
\* timestamped snapshots and latest.json), two records with the same
\* contentHash have the same urls (original, thumb and, for video, preview).
C1_DedupInvariant ==
    /\ SameHashSameUrls({e.metadata : e \in Entries(processingState)})
    /\ SameHashSameUrls(RecordsOf(latest))
    /\ \A s \in snapshots : SameHashSameUrls(RecordsOf(s[2]))

\* A published catalog lists one content in two sections.
C1_Witness ==
    /\ latest # NoDoc
    /\ \E s1, s2 \in DOMAIN latest :
          /\ s1 # s2
          /\ \E n1 \in DOMAIN latest[s1], n2 \in DOMAIN latest[s2] :
                latest[s1][n1].contentHash = latest[s2][n2].contentHash

\* C2: in one run, derivative generation and upload (a generated thumbnail or
\* preview, a probe, a put) are performed for at most one source file of each
\* contentHash.  Stated for the runs in which no call throws, the least the
\* claim says.
C2_OncePerContent ==
    faults = 0 =>
        \A e1, e2 \in hist.events :
            /\ e1.op \in WorkOps
            /\ e2.op \in WorkOps
            /\ tree[e1.pos].hash = tree[e2.pos].hash
            => e1.pos = e2.pos

\* C3: when the hash of the file that was just hashed is recorded in another
\* section, the step lists it in the file's own section with a record equal
\* to the recorded one and ends the file there: no name is allocated, nothing
\* is generated, probed or put.
C3_Reference ==
    [][ ( /\ pc = "hash"
          /\ faults' = faults
          /\ \E e \in Entries(processingState) :
                e.metadata.contentHash = Cur.hash /\ e.section # Cur.section )
        => /\ pc' = "walk"
           /\ hist'.outcome = Append(hist.outcome, "Referenced")
           /\ \E e \in Entries(processingState') :
                 /\ e.section = Cur.section
                 /\ e.metadata \in {x.metadata : x \in {y \in Entries(processingState) :
                                                    y.metadata.contentHash = Cur.hash}}
           /\ hist'.events = hist.events
           /\ hist'.names = hist.names
           /\ blobs' = blobs
           /\ tmp' = tmp ]_vars

\* The same content in two sections: two entries with one record, and the
\* uploads of one file only.
C3_Witness ==
    /\ pc = "walk"
    /\ pos = 2
    /\ Outcome(1) = "Recorded"
    /\ Outcome(2) = "Referenced"
    /\ tree[1].section # tree[2].section
    /\ \E e1, e2 \in Entries(processingState) :
          e1.section # e2.section /\ e1.metadata = e2.metadata
    /\ {e.pos : e \in {x \in hist.events : x.op = "put"}} = {1}

\* C4: the StandardNames handed out in one run for TMP_DIR are pairwise
\* distinct and, for each date string, carry the serials 1, 2, 3, ... in the
\* order of allocation.  Stated for the names of the files that were recorded.
C4_NamesDistinct ==
    \A i, j \in 1..Len(hist.names) :
        /\ i < j
        /\ Outcome(hist.names[i].pos) = "Recorded"
        /\ Outcome(hist.names[j].pos) = "Recorded"
        => /\ hist.names[i].name # hist.names[j].name
           /\ hist.names[i].name.stem = hist.names[j].name.stem
              => hist.names[i].name.serial < hist.names[j].name.serial


\* C5: a second run over the unchanged source tree, with the bucket as the
\* first run left it, ends with the catalog of the first run and puts no
\* object.  Stated for two successive runs that both published and in which no
\* call threw.
C5_Idempotent ==
    ( /\ pc = "exit"
      /\ exitCode = 0
      /\ faults = 0
      /\ hist.prev # NoCat
      /\ hist.prev.exitCode = 0 )
    => /\ Serialize(processingState) = hist.prev.cat
       /\ \A e \in hist.events : e.op # "put"

\* C6: a put follows a probe of the same key (same file, same asset) that
\* answered NotFound; a probe that finds the object yields its public URL and
\* no put; no media key is ever put while an object is stored under it.
C6_ProbeBeforePut ==
    /\ hist.overwritten = {}
    /\ \A e \in hist.events :
          e.op = "put" => [e EXCEPT !.op = "probe"] \in hist.events
    /\ pc = "put" =>
          /\ KeyOf(Cur, role, newFilename) \notin blobs
          /\ Event("probe") \in hist.events
    /\ \A e \in Entries(processingState) :
          \A r \in DOMAIN e.metadata.urls :
              e.metadata.urls[r].key.directory \in {"originals", "thumbs", "previews"}
    /\ dimensions # NoDims =>
          dimensions.urls.original = PublicUrl(KeyOf(Cur, "originals", newFilename))

\* A file was recorded on probes alone: its objects were found, nothing put.
C6_Witness ==
    \E i \in 1..Len(hist.outcome) :
        /\ hist.outcome[i] = "Recorded"
        /\ [pos |-> i, op |-> "probe", role |-> "originals"] \in hist.events
        /\ [pos |-> i, op |-> "probe", role |-> "thumbs"] \in hist.events
        /\ \A e \in hist.events : e.pos = i => e.op # "put"

\* C7: a file whose hashing throws ends Failed and the run goes on.
C7_HashFailureIsolated ==
    \A e \in hist.events :
        e.op = "hashError" => Outcome(e.pos) = "Failed" /\ pc # "exit"

\* C8: a failure of the dimension probe, the copy, the derivative generation,
\* an existence probe or a put ends the file Failed: it is logged, nothing is
\* inserted, the exit status is untouched and the loop goes on; a Failed file
\* has no record of its own in the catalog.
C8_ItemStep ==
    ( /\ pc \in {"dims", "copy", "gen", "probe", "put"}
      /\ faults' = faults + 1 )
    => /\ pc' = "walk"
       /\ errors' = errors \cup {pos}
       /\ processingState' = processingState
       /\ exitCode' = exitCode
       /\ hist'.outcome = Append(hist.outcome, "Failed")

C8_FailedAbsent ==
    \A i \in 1..Len(hist.outcome) :
        hist.outcome[i] = "Failed" =>
            /\ i \in errors
            /\ \A e \in Entries(processingState) : e.metadata.originalFilename # i

C8_ItemErrorIsolated == []C8_FailedAbsent /\ [][C8_ItemStep]_vars

\* A file failed, a later one was recorded, the catalog was published.
C8_Witness ==
    /\ pc = "exit"
    /\ exitCode = 0
    /\ \E i \in errors : \E j \in 1..Len(hist.outcome) :
          i < j /\ hist.outcome[j] = "Recorded"

\* C9: the put of latest.json is issued only when the timestamped snapshot of
\* this catalog is stored; until a run has published, and after a run whose
\* publish failed, latest.json is the document the run started with, and it
\* is always a whole published document.
C9_PublishOrder ==
    /\ pc = "pubL" =>
          <<VersionedKey(now, run), Serialize(processingState)>> \in snapshots
    /\ ~(pc = "exit" /\ exitCode = 0) => latest = hist.latest0
    /\ latest # NoDoc => \E x \in snapshots : x[2] = latest

\* The publish of a run failed: latest.json still is the catalog of the run
\* before, which differs from the catalog of this run.
C9_Witness ==
    /\ pc = "exit"
    /\ exitCode = 1
    /\ Len(tree) >= 1
    /\ Len(hist.outcome) = Len(tree)
    /\ hist.latest0 # NoDoc
    /\ latest = hist.latest0
    /\ latest # Serialize(processingState)

\* C10: latest.json is the catalog of the last run whose publish succeeded
\* (no document before the first), equal to the timestamped snapshot of that
\* run, and after a successful run exactly the catalog of that run.
C10_LatestIsLastGood ==
    /\ latest = IF hist.good = NoDoc THEN NoDoc ELSE hist.good.doc
    /\ hist.good # NoDoc => <<hist.good.key, hist.good.doc>> \in snapshots
    /\ pc = "exit" /\ exitCode = 0 => latest = Serialize(processingState)

\* A second successful publish replaced a different document.
C10_Witness ==
    /\ pc = "exit"
    /\ exitCode = 0
    /\ hist.latest0 # NoDoc
    /\ latest # hist.latest0
    /\ \E x \in DOMAIN hist.latest0 : \E n \in DOMAIN hist.latest0[x] :
          x \notin DOMAIN latest \/ n \notin DOMAIN latest[x]

\* C11: a timestamped snapshot, once stored, stays in the bucket as it was
\* stored: a publish adds one document under a key no stored snapshot has,
\* and changes no other; no two snapshots share a key and no media object is
\* put over a stored one, so metadata/latest.json is the only key overwritten.
C11_KeysUnique ==
    /\ \A s1, s2 \in snapshots : s1[1] = s2[1] => s1 = s2
    /\ hist.overwritten = {}

C11_SnapshotStep ==
    /\ snapshots \subseteq snapshots'
    /\ snapshots' # snapshots =>
          /\ pc = "pubV"
          /\ snapshots' = snapshots \cup
                 {<<VersionedKey(now, run), Serialize(processingState)>>}
          /\ \A s \in snapshots : s[1] # VersionedKey(now, run)

PresentFiles == {tree[i] : i \in {j \in 1..Len(tree) : Present(tree[j], run)}}

FromPresentFile(section, rec) ==
    \E f \in PresentFiles : f.section = section /\ f.hash = rec.contentHash

\* C12: the walk of an execution starts with the empty catalog; every entry
\* of the catalog being built, and of the latest.json and the snapshot the
\* execution publishes, is for a file that is in the tree in this execution,
\* listed in that file's section: what the latest.json before held for files
\* that are gone is not in the new one.
C12_FreshCatalog ==
    /\ pc = "walk" /\ pos = 0 => processingState = <<>>
    /\ pc # "start" =>
          \A e \in Entries(processingState) : FromPresentFile(e.section, e.metadata)
    /\ pc = "exit" /\ exitCode = 0 =>
          /\ \A s \in DOMAIN latest : \A n \in DOMAIN latest[s] :
                FromPresentFile(s, latest[s][n])
          /\ \A x \in snapshots : x[1] = VersionedKey(now, run) =>
                \A s \in DOMAIN x[2] : \A n \in DOMAIN x[2][s] :
                    FromPresentFile(s, x[2][s][n])

\* A file was deleted after the first execution; the second one published a
\* catalog that lists another file and nothing of the deleted content, which
\* the latest.json before did list.
C12_Witness ==
    /\ pc = "exit"
    /\ exitCode = 0
    /\ run = 2
    /\ hist.latest0 # NoDoc
    /\ latest # NoDoc
    /\ RecordsOf(latest) # {}
    /\ \E i \in 1..Len(tree) :
          /\ tree[i].life = "removed"
          /\ \E r \in RecordsOf(hist.latest0) : r.contentHash = tree[i].hash
          /\ \A r \in RecordsOf(latest) : r.contentHash # tree[i].hash

\* C13: when the second execution runs on the tree of the first plus one
\* new file, and both publish, the second puts objects of the new file only
\* and its catalog holds every entry of the first catalog: same section,
\* same StandardName, same record.
C13_PlusOneFile ==
    ( /\ pc = "exit"
      /\ exitCode = 0
      /\ run = 2
      /\ hist.prev # NoCat
      /\ hist.prev.exitCode = 0
      /\ \E i \in 1..Len(tree) : tree[i].life = "added" )
    => /\ \A e \in hist.events : e.op = "put" => tree[e.pos].life = "added"
       /\ \A s \in DOMAIN hist.prev.cat :
             /\ s \in DOMAIN Serialize(processingState)
             /\ \A n \in DOMAIN hist.prev.cat[s] :
                   /\ n \in DOMAIN Serialize(processingState)[s]
                   /\ Serialize(processingState)[s][n] = hist.prev.cat[s][n]

\* C14: when the process has exited (after a publish, after a failed
\* publish, after an error thrown in the walk), TMP_DIR is gone.
C14_TmpRemoved == pc = "exit" => ~tmpExists /\ tmp = {}

\* The walk of this execution went through every file of the tree.
WalkCompleted == Len(hist.outcome) = Len(tree)

\* This execution stored its catalog as metadata/latest.json.
Published ==
    /\ hist.good # NoDoc
    /\ hist.good.key = VersionedKey(now, run)
    /\ latest = Serialize(processingState)

\* C15: the process exits 0 exactly when the walk completed and the catalog
\* was published, whatever number of files ended Failed; a failed startup
\* check (source root, credentials) and a failed publish put exit non-zero.
C15_ExitState ==
    pc = "exit" =>
        /\ exitCode \in {0, 1}
        /\ exitCode = 0 <=> (WalkCompleted /\ Published)

C15_ExitStep ==
    ( /\ pc \in {"start", "pubV", "pubL"}
      /\ faults' = faults + 1 )
    => /\ pc' = "exit"
       /\ exitCode' # 0
       /\ latest' = latest

C15_ExitCodes == []C15_ExitState /\ [][C15_ExitStep]_vars

\* The process exited 0 although a file ended Failed.
C15_Witness ==
    /\ pc = "exit"
    /\ exitCode = 0
    /\ WalkCompleted
    /\ \E i \in 1..Len(hist.outcome) : hist.outcome[i] = "Failed"
    /\ stdout[Len(stdout)] = "done"

\* C16: when the execution was aborted before the publish step (a startup
\* check failed or the walk threw), the exit status is non-zero and the
\* execution changed nothing in the bucket: it put no media object and wrote
\* neither a snapshot nor latest.json.
C16_NothingDurable ==
    [][ ( /\ pc \in {"start", "hash"}
          /\ faults' = faults + 1 )
        => /\ pc' = "exit"
           /\ exitCode' # 0
           /\ \A e \in hist'.events : e.op # "put"
           /\ \A x \in snapshots' : x[1].ms # run
           /\ latest' = hist.latest0 ]_vars

\* C17: in a later execution, for content whose object is in the bucket
\* already, nothing is uploaded and nothing is generated again: a step taken
\* while the object of the asset at hand is stored neither puts nor builds
\* the thumbnail or the preview.  Stated for executions in which no call
\* throws.
C17_SkipExisting ==
    [][ ( /\ run > 1
          /\ faults = 0
          /\ pc \in {"gen", "probe", "put"}
          /\ KeyOf(Cur, role, newFilename) \in blobs )
        => /\ Event("gen") \in hist'.events => Event("gen") \in hist.events
           /\ Event("put") \in hist'.events => Event("put") \in hist.events
           /\ blobs' = blobs
           /\ tmp' = tmp ]_vars

\* What the execution reported on its output, and what happened.
Count(m) == Cardinality({i \in 1..Len(stdout) : stdout[i] = m})

FilesThat(o) == {i \in 1..Len(hist.outcome) : hist.outcome[i] = o}

PutFiles == {e.pos : e \in {x \in hist.events : x.op = "put"}}

\* C18: at the end of a run the pipeline has reported how many files were
\* uploaded, skipped and failed: one error count per Failed file, duplicate
\* references and files found stored counted as skips, apart from the
\* uploads and the errors.  The only counts the run reports are the marks
\* 'x', 's' and '+' it writes; the claim is stated of them.
C18_Counts ==
    ( pc = "exit" /\ exitCode = 0 )
    => /\ Count("x") = Cardinality(FilesThat("Failed"))
       /\ Count("+") = Cardinality(FilesThat("Recorded") \cap PutFiles)
       /\ Count("s") = Cardinality(FilesThat("Referenced")
                                      \cup (FilesThat("Recorded") \ PutFiles))

\* C19: for every item getAllMediaItems lists, getMediaItemById of its id
\* gives that item back: no two items of a catalog have the same id.
C19_IdRoundTrip ==
    /\ site.query # 0 => site.found = site.items[site.query]
    /\ \A i, j \in 1..Len(site.items) :
          site.items[i].id = site.items[j].id => i = j

\* The derivatives of a file, and whether they are built.
Derivatives(f) == IF f.kind = "image" THEN {"thumbs"} ELSE {"thumbs", "previews"}

Built(r) == [pos |-> pos, op |-> "gen", role |-> r] \in hist.events

\* C20: for a file that is not a duplicate the name is allocated before a
\* derivative is built, every derivative of the file is built before one of
\* its objects is put, and the record is inserted only when the original
\* and every derivative are stored.
C20_StepOrder ==
    [][ /\ pc = "gen" => [pos |-> pos, op |-> "alloc", role |-> "none"] \in hist.events
        /\ blobs' # blobs => \A r \in Derivatives(Cur) : Built(r)
        /\ ( pc \in {"probe", "put"} /\ processingState' # processingState )
           => \A r \in Derivatives(Cur) \cup {"originals"} :
                  KeyOf(Cur, r, newFilename) \in blobs' ]_vars

\* C21: the step that ends a supported file ends it Recorded or Referenced,
\* and then the catalog lists a record with the file's contentHash in the
\* file's section, or Failed, and then an error is logged for the file.  No
\* file ends without the one or the other.
C21_TerminalOutcome ==
    [][ hist'.outcome # hist.outcome =>
          LET o == hist'.outcome[Len(hist'.outcome)]
          IN  \/ /\ o \in {"Recorded", "Referenced"}
                 /\ \E e \in Entries(processingState') :
                       /\ e.section = Cur.section
                       /\ e.metadata.contentHash = Cur.hash
              \/ /\ o = "Failed"
                 /\ pos \in errors' ]_vars

\* C22: during a run the catalog only grows: an entry that is in the
\* catalog under a (section, StandardName) is there after every later step
\* of the run, with a record of the same contentHash.
C22_CatalogGrows ==
    [][ pc # "start" =>
          \A e \in Entries(processingState) :
              \E x \in Entries(processingState') :
                  /\ x.section = e.section
                  /\ x.filename = e.filename
                  /\ x.metadata.contentHash = e.metadata.contentHash ]_vars

InFlight == {"hash", "name", "dims", "copy", "probe", "put", "gen"}

\* C23: files are processed one at a time.  While a file is between its
\* duplicate check and its terminal outcome, every file before it has its
\* outcome and the walk does not move; the catalog changes only for the file
\* at hand, by an entry in its section with its contentHash.
C23_NoneInFlight ==
    /\ pc \in InFlight => Len(hist.outcome) = pos - 1
    /\ pc \in {"walk", "cleanup", "pubV", "pubL"} => Len(hist.outcome) = pos
    /\ \A e \in hist.events : e.pos <= pos

C23_FileStep ==
    /\ pc \in InFlight => pos' = pos
    /\ ( pc # "start" /\ processingState' # processingState ) =>
          /\ pc \in InFlight
          /\ \A e \in Entries(processingState') \ Entries(processingState) :
                e.section = Cur.section /\ e.metadata.contentHash = Cur.hash

C23_OneAtATime == []C23_NoneInFlight /\ [][C23_FileStep]_vars

\* Two files of one section with the same content, one after the other: the
\* first was classified new, the second found it.
C23_Witness ==
    /\ pc = "walk"
    /\ pos = 2
    /\ tree[1].hash = tree[2].hash
    /\ tree[1].section = tree[2].section
    /\ hist.outcome = <<"Recorded", "Referenced">>
    /\ {e.pos : e \in {x \in hist.events : x.op = "alloc"}} = {1}
    /\ Len(processingState) = 1

\* C24: the StandardName's time stamp is the embedded capture time when the
\* file has one, else the file's creation time; every file here has a
\* creation time, so the wall clock is never what names a file.
C24_DateFallback ==
    \A i \in 1..Len(hist.names) :
        LET f == tree[hist.names[i].pos]
        IN  hist.names[i].name.stem.dateStr =
                FormatDate(IF f.exif # NoExif THEN f.exif ELSE f.birth)

\* C25: every blob is stored under <role>/<YYYY>/<MM>/<contentHash>.<ext>:
\* the role of the asset, the year and month that stand in the file's
\* StandardName, and the SHA-256 of the original file with nothing added.
C25_KeyFormat ==
    [][ \A k \in blobs' \ blobs :
            /\ k.directory = role
            /\ k.directory \in {"originals", "thumbs", "previews"}
            /\ k.datePath = [ym |-> DateMatch(newFilename) \div DaysPerMonth]
            /\ k.name = [hex |-> Cur.hash, suffix |-> ""] ]_vars

\* The stream's rotation in degrees: the tag rotate when the stream has
\* one, else the rotation of its display matrix.
Degrees(f) ==
    IF f.rotate = "90" THEN 90
    ELSE IF f.rotate = "180" THEN 180
    ELSE IF f.rotate = "270" THEN 270
    ELSE f.sideRotation

VideoRecords ==
    {p \in Entries(processingState) \X {tree[i] : i \in 1..Len(tree)} :
        /\ p[2].kind = "video"
        /\ p[2].hash = p[1].metadata.contentHash}

MaxProcs == 2        \* executions at the same time

Procs == 1..MaxProcs

TmpRoles == {"originals", "thumbs"}

NoFiles == [r \in TmpRoles |-> "absent"]

InitRuns ==
    /\ tz \in BOOLEAN
    /\ now = 0
    /\ tree = <<CHOOSE f \in ImageFiles :
                    f.section = "a" /\ f.hash = 1 /\ f.birth = 0>>
    /\ run = 1
    /\ pc = "exit"
    /\ pos = 0
    /\ newFilename = NoName
    /\ role = "none"
    /\ dimensions = NoDims
    /\ processingState = <<>>
    /\ tmp = {}
    /\ tmpExists = FALSE
    /\ blobs = {}
    /\ snapshots = {}
    /\ latest = NoDoc
    /\ exitCode = -1
    /\ errors = {}
    /\ stdout = <<>>
    /\ site = NoSite
    /\ procs = [p \in Procs |->
                  [pc |-> "start", role |-> "originals", fileContent |-> "absent",
                   outcome |-> "none", exitCode |-> -1]]
    /\ tmpDir = [exists |-> FALSE, files |-> NoFiles]
    /\ objects = NoFiles
    /\ faults = MaxFaults
    /\ hist = NewHist

Shared == <<tz, now, tree, run, pc, pos, newFilename, role, dimensions,
            processingState, tmp, tmpExists, blobs, snapshots, latest,
            exitCode, errors, stdout, site, faults, hist>>

Goto(p, to) == procs' = [procs EXCEPT ![p].pc = to]

\* processImage's catch: { success: false }; processDirectory writes 'x' and
\* the walk, which has no other file, returns.
FailedIn(p) == procs' = [procs EXCEPT ![p].pc = "cleanup", ![p].outcome = "Failed"]

\* main: ensureDir(TMP_DIR)
main_ensureDir(p) ==
    /\ procs[p].pc = "start"
    /\ tmpDir' = [tmpDir EXCEPT !.exists = TRUE]
    /\ Goto(p, "name")
    /\ UNCHANGED objects
    /\ UNCHANGED Shared

\* generateStandardFilename: fs.readdirSync(destDir), called by
\* processDirectory outside any try; ENOENT goes to main's catch.
generateStandardFilename_readdir(p) ==
    /\ procs[p].pc = "name"
    /\ IF tmpDir.exists
       THEN Goto(p, "ensure")
       ELSE procs' = [procs EXCEPT ![p].pc = "exit", ![p].exitCode = 1]
    /\ UNCHANGED <<tmpDir, objects>>
    /\ UNCHANGED Shared

\* processImage: ensureDir(TMP_DIR)
processImage_ensureDir(p) ==
    /\ procs[p].pc = "ensure"
    /\ tmpDir' = [tmpDir EXCEPT !.exists = TRUE]
    /\ Goto(p, "copy")
    /\ UNCHANGED objects
    /\ UNCHANGED Shared

\* fs.copyFileSync(sourcePath, tmpOriginalPath) / pipeline.toFile(tmpThumbPath)
\* opens the destination and truncates it.
processImage_open(p) ==
    /\ procs[p].pc = "copy"
    /\ IF tmpDir.exists
       THEN /\ tmpDir' = [tmpDir EXCEPT !.files[procs[p].role] = "torn"]
            /\ Goto(p, "write")
       ELSE /\ FailedIn(p)
            /\ UNCHANGED tmpDir
    /\ UNCHANGED objects
    /\ UNCHANGED Shared

\* ... and writes the bytes; when the file was unlinked meanwhile they go to
\* a file no path leads to.
processImage_write(p) ==
    /\ procs[p].pc = "write"
    /\ tmpDir' = IF tmpDir.exists /\ tmpDir.files[procs[p].role] # "absent"
                 THEN [tmpDir EXCEPT !.files[procs[p].role] = "whole"]
                 ELSE tmpDir
    /\ Goto(p, "read")
    /\ UNCHANGED objects
    /\ UNCHANGED Shared

\* uploadToR2: const fileContent = fs.readFileSync(filePath)
uploadToR2_read(p) ==
    /\ procs[p].pc = "read"
    /\ IF tmpDir.exists /\ tmpDir.files[procs[p].role] # "absent"
       THEN procs' = [procs EXCEPT ![p].pc = "probe",
                                   ![p].fileContent = tmpDir.files[procs[p].role]]
       ELSE FailedIn(p)
    /\ UNCHANGED <<tmpDir, objects>>
    /\ UNCHANGED Shared

\* The caller of uploadToR2 after { success: true, url }.
UploadedIn(p) ==
    IF procs[p].role = "originals"
    THEN procs' = [procs EXCEPT ![p].pc = "copy", ![p].role = "thumbs"]
    ELSE procs' = [procs EXCEPT ![p].pc = "cleanup", ![p].outcome = "Recorded"]

\* uploadToR2: if (await checkObjectExists(key)) return
uploadToR2_head(p) ==
    /\ procs[p].pc = "probe"
    /\ IF objects[procs[p].role] # "absent"
       THEN UploadedIn(p)
       ELSE Goto(p, "put")
    /\ UNCHANGED <<tmpDir, objects>>
    /\ UNCHANGED Shared

\* uploadToR2: s3Client.send(new PutObjectCommand({ Key: key, Body: fileContent }))
uploadToR2_send(p) ==
    /\ procs[p].pc = "put"
    /\ objects' = [objects EXCEPT ![procs[p].role] = procs[p].fileContent]
    /\ UploadedIn(p)
    /\ UNCHANGED tmpDir
    /\ UNCHANGED Shared

\* cleanupTmp: fs.rmSync(TMP_DIR, { recursive: true, force: true })
cleanupTmp_shared(p) ==
    /\ procs[p].pc = "cleanup"
    /\ tmpDir' = [exists |-> FALSE, files |-> NoFiles]
    /\ Goto(p, "publish")
    /\ UNCHANGED objects
    /\ UNCHANGED Shared

\* uploadMetadata, and main returns.
uploadMetadata_exit(p) ==
    /\ procs[p].pc = "publish"
    /\ procs' = [procs EXCEPT ![p].pc = "exit", ![p].exitCode = 0]
    /\ UNCHANGED <<tmpDir, objects>>
    /\ UNCHANGED Shared

NextRuns ==
    \E p \in Procs :
        \/ main_ensureDir(p)
        \/ generateStandardFilename_readdir(p)
        \/ processImage_ensureDir(p)
        \/ processImage_open(p)
        \/ processImage_write(p)
        \/ uploadToR2_read(p)
        \/ uploadToR2_head(p)
        \/ uploadToR2_send(p)
        \/ cleanupTmp_shared(p)
        \/ uploadMetadata_exit(p)

SpecRuns == InitRuns /\ [][NextRuns]_vars

\* C27: when uploads of the same content race, the puts carry identical
\* bytes: no key ever holds bytes other than those of the content (or of
\* its derivative) the key names.
C27_SameBytes == \A r \in TmpRoles : objects[r] \in {"absent", "whole"}

\* C28: temporary storage is scoped to one run: no execution fails an
\* item, aborts, or reads other bytes than it wrote because of what the
\* other execution did to TMP_DIR.
C28_RunsIsolated ==
    \A p \in Procs :
        /\ procs[p].outcome # "Failed"
        /\ procs[p].exitCode # 1
        /\ procs[p].fileContent # "torn"

(***************************************************************************)
(* One execution under fairness: every call the script awaits returns or   *)
(* throws, so a step that can be taken is taken.  The tree is as in        *)
(* SpecFiles, and one call may throw.                                      *)
(***************************************************************************)
InitFair ==
    /\ tz \in BOOLEAN
    /\ now = 0
    /\ tree = <<>>
    /\ run = MaxRuns
    /\ pc = "start"
    /\ pos = 0
    /\ newFilename = NoName
    /\ role = "none"
    /\ dimensions = NoDims
    /\ processingState = <<>>
    /\ tmp = {}
    /\ tmpExists = FALSE
    /\ blobs = {}
    /\ snapshots = {}
    /\ latest = NoDoc
    /\ exitCode = -1
    /\ errors = {}
    /\ stdout = <<>>
    /\ site = NoSite
    /\ procs = NoProcs
    /\ tmpDir = NoDir
    /\ objects = NoObjects
    /\ faults = 0
    /\ hist = NewHist

SpecFair == InitFair /\ [][NextFiles]_vars /\ WF_vars(NextFiles)

Terminal == {"Recorded", "Referenced", "Failed"}

\* C29: the execution terminates: every file the walk comes to reaches a
\* terminal state, Recorded, Referenced or Failed, and the process exits,
\* with 0 after it has published metadata/latest.json, or with non-zero.
C29_Terminates ==
    /\ \A i \in 1..MaxFiles : (Len(tree) >= i) ~> (Outcome(i) \in Terminal)
    /\ <>(pc = "exit" /\ (exitCode = 0 => Published) /\ exitCode \in {0, 1})

UrlsStored(rec) ==
    \A u \in DOMAIN rec.urls :
        /\ rec.urls[u] # NoUrl
        /\ rec.urls[u].key \in blobs

\* C30: a record is in the catalog only when an object exists at the key of
\* each of its URLs (original, thumb, preview); so it is for every record of
\* metadata/latest.json right after an execution that exits 0.
C30_UrlsExist ==
    /\ \A e \in Entries(processingState) : UrlsStored(e.metadata)
    /\ (pc = "exit" /\ exitCode = 0) =>
            \A rec \in RecordsOf(latest) : UrlsStored(rec)

\* The second execution exits 0 with a video in its catalog, after another
\* file failed: three objects stand behind the record's three URLs.
C30_Witness ==
    /\ pc = "exit"
    /\ exitCode = 0
    /\ run = MaxRuns
    /\ faults > 0
    /\ \E rec \in RecordsOf(latest) :
          /\ rec.type = "video"
          /\ DOMAIN rec.urls = {"original", "thumb", "preview"}
          /\ UrlsStored(rec)

UrlsComplete(rec) ==
    /\ rec.urls.original # NoUrl
    /\ rec.urls.thumb # NoUrl
    /\ rec.type = "video" => "preview" \in DOMAIN rec.urls /\ rec.urls.preview # NoUrl
    /\ rec.type = "image" => "preview" \notin DOMAIN rec.urls

\* C31: every record of the catalog, of metadata/latest.json and of every
\* snapshot has its original and thumb URL; a video has its preview URL
\* too and an image has none.  No placeholder reaches the catalog.
C31_UrlsComplete ==
    /\ \A e \in Entries(processingState) : UrlsComplete(e.metadata)
    /\ \A rec \in RecordsOf(latest) : UrlsComplete(rec)
    /\ \A sn \in snapshots : \A rec \in RecordsOf(sn[2]) : UrlsComplete(rec)

\* A snapshot lists an image and a video.
C31_Witness ==
    \E sn \in snapshots :
        /\ \E rec \in RecordsOf(sn[2]) : rec.type = "image" /\ UrlsComplete(rec)
        /\ \E rec \in RecordsOf(sn[2]) : rec.type = "video" /\ UrlsComplete(rec)

\* C32: every record of the catalog has a positive width and a positive
\* height and its aspectRatio is width / height; a file whose dimensions
\* cannot be determined ends Failed and is not recorded.
C32_Dimensions ==
    /\ \A e \in Entries(processingState) :
          LET m == e.metadata
          IN  /\ m.width > 0
              /\ m.height > 0
              /\ m.aspectRatio # NaN
              /\ m.aspectRatio.num * m.height = m.width * m.aspectRatio.den
    /\ \A i \in 1..Len(hist.outcome) :
          tree[i].noDims => hist.outcome[i] \in {"Failed", "Referenced"}

Referenced(key, doc) ==
    \E rec \in RecordsOf(doc) :
        \E u \in DOMAIN rec.urls : rec.urls[u] # NoUrl /\ rec.urls[u].key = key

\* C33: what the first execution put to the store, its published catalog
\* refers to; and a file that ended Failed has put nothing.
C33_NoOrphans ==
    /\ (run = 1 /\ pc = "exit" /\ exitCode = 0) =>
            \A k \in blobs : Referenced(k, latest)
    /\ \A e \in hist.events :
            e.op = "put" => Outcome(e.pos) # "Failed"

(***************************************************************************)
(* scripts/clear-cache.ts run between two executions of process-media on   *)
(* the same tree.  No call throws.                                         *)
(***************************************************************************)
CACHE_PREFIXES == {"thumbs", "previews", "metadata"}

\* listObjects(prefix): the keys of the bucket that start with the prefix.
listObjects(prefix) == {k \in blobs : k.directory = prefix}

\* main of clear-cache: for each prefix listObjects and deleteObjects; under
\* metadata/ are latest.json and the snapshots.
clearCache_main ==
    /\ pc = "exit"
    /\ run < MaxRuns
    /\ latest # NoDoc
    /\ blobs' = blobs \ UNION {listObjects(prefix) : prefix \in CACHE_PREFIXES}
    /\ snapshots' = {}
    /\ latest' = NoDoc
    /\ UNCHANGED <<tz, now, tree, run, pc, pos, newFilename, role, dimensions,
                   processingState, tmp, tmpExists, exitCode, errors, stdout,
                   faults, hist>>
    /\ UNCHANGED <<site, procs, tmpDir, objects>>

NextClear ==
    \/ Tick
    \/ Startup
    \/ processDirectory_item
    \/ processDirectory_return
    \/ processDirectory_hash
    \/ processDirectory_name
    \/ process_dims
    \/ process_copy
    \/ uploadToR2_probe
    \/ uploadToR2_put
    \/ process_gen
    \/ cleanupTmp
    \/ uploadMetadata_versioned
    \/ uploadMetadata_latest
    \/ clearCache_main
    \/ StartRun

SpecClear == InitEdit /\ [][NextClear]_vars

Originals(b) == {k \in b : k.directory = "originals"}

\* The execution at hand was started after clear-cache had emptied the
\* cache the execution before had published.
Cleared ==
    /\ run > 1
    /\ hist.prev # NoCat
    /\ hist.prev.exitCode = 0
    /\ hist.latest0 = NoDoc

C34_ClearStep ==
    (pc = "exit" /\ pc' = "exit" /\ <<blobs, snapshots, latest>>' # <<blobs, snapshots, latest>>)
        => /\ Originals(blobs') = Originals(blobs)
           /\ blobs' = Originals(blobs)
           /\ snapshots' = {}
           /\ latest' = NoDoc

C34_Rebuilt ==
    (Cleared /\ pc = "exit" /\ exitCode = 0) =>
        /\ \A rec \in RecordsOf(latest) : UrlsStored(rec)
        /\ \A i \in 1..Len(tree) : \A r \in Derivatives(tree[i]) :
              \E k \in blobs : k.directory = r /\ k.name.hex = tree[i].hash
        /\ \A e \in hist.events : ~(e.op = "put" /\ e.role = "originals")

\* C34: clear-cache deletes every object under thumbs/, previews/ and
\* metadata/ and leaves every object under originals/ as it is; the
\* execution of process-media that follows on the same tree puts no
\* original again, has a thumb (and preview) in the store for every file,
\* and publishes a latest.json whose URLs all have their objects.
C34_ClearAndRebuild == []C34_Rebuilt /\ [][C34_ClearStep]_vars

====
